---- MODULE Spec2Model ----
(***************************************************************************)
(* CPU scheduling simulator (Project1/main.go): main loads a process list  *)
(* and runs FCFSSchedule, SJFSchedule, SJFPrioritySchedule and RRSchedule  *)
(* on it, one after the other.  Each scheduler is modelled loop iteration  *)
(* by loop iteration over its local variables.                             *)
(***************************************************************************)
EXTENDS Integers, Sequences, FiniteSets, TLC

\* ---- bounds of the explored inputs ----
MaxProcs == 2
MaxArrival == 2
MaxBurst == 2
MaxPriority == 1

VARIABLES
    processes,        \* the caller's list (main.go:25)
    alg,              \* the scheduler main is in: "main", "FCFS", "SJF", "SJFPriority", "RR"
    pc,               \* position in it: "loop", "body", "ret"
    serviceTime,
    totalWait,
    totalTurnaround,
    lastCompletion,
    waitingTime,
    schedule,
    gantt,
    remainingBurst,
    copyProcesses,
    i,                \* loop index (1-based), also the selected index of SJF/priority
    summary           \* aveWait, aveTurnaround, aveThroughput

vars == <<processes, alg, pc, serviceTime, totalWait, totalTurnaround,
          lastCompletion, waitingTime, schedule, gantt, remainingBurst,
          copyProcesses, i, summary>>

\* ---- data types ----
Process(id, arrival, burst, priority) ==
    [ProcessID |-> id, ArrivalTime |-> arrival, BurstDuration |-> burst, Priority |-> priority]

TimeSlice(pid, start, stop) == [PID |-> pid, Start |-> start, Stop |-> stop]

\* ---- fmt.Sprint of an int64: its decimal digits, with a sign ----
DigitChar == <<"0", "1", "2", "3", "4", "5", "6", "7", "8", "9">>

RECURSIVE Digits(_)
Digits(n) == IF n < 10 THEN <<DigitChar[n + 1]>>
             ELSE Digits(n \div 10) \o <<DigitChar[(n % 10) + 1]>>

Sprint(n) == IF n < 0 THEN <<"-">> \o Digits(0 - n) ELSE Digits(n)

\* a row of the schedule table
Row(p, wait, turnaround, completion) ==
    <<Sprint(p.ProcessID), Sprint(p.Priority), Sprint(p.BurstDuration),
      Sprint(p.ArrivalTime), Sprint(wait), Sprint(turnaround), Sprint(completion)>>

\* make([][]string, n): n nil rows
MakeSchedule(n) == [k \in 1..n |-> <<>>]

\* a Go map read: the zero value for a missing key
MapGet(m, k) == IF k \in DOMAIN m THEN m[k] ELSE 0

MapDelete(m, k) == [x \in (DOMAIN m) \ {k} |-> m[x]]

\* remainingBurst filled from the copy, in list order (a later duplicate id wins)
RECURSIVE InitRemaining(_, _)
InitRemaining(cp, k) ==
    IF k = 0 THEN << >>
    ELSE LET m == InitRemaining(cp, k - 1)
             id == cp[k].ProcessID
         IN [x \in (DOMAIN m) \cup {id} |-> IF x = id THEN cp[k].BurstDuration ELSE m[x]]

\* faulty variant: the last element is dropped, whatever k
RemoveLast(s, k) == [j \in 1..(Len(s) - 1) |-> s[j]]

\* append(s[:k], s[k+1:]...) with k 1-based
RemoveAt(s, k) == [j \in 1..(Len(s) - 1) |-> IF j < k THEN s[j] ELSE s[j + 1]]

\* faulty variant: cp is ps[:Len(cp)] itself, so the removal shifts the caller's elements
CallerListShared(ps, cp, k) ==
    [j \in 1..Len(ps) |-> IF j < k \/ j >= Len(cp) THEN ps[j] ELSE ps[j + 1]]

\* the caller's list after cp[k] is removed in place: cp was made and filled by
\* make and copy (lines 144-145, 218-219, 292-293) and shares no array with ps
CallerList(ps, cp, k) == ps

\* float64 division, kept exact as numerator and denominator (0 denominator: NaN or Inf)
Div(a, b) == <<a, b>>

Averages(n) ==
    [aveWait |-> Div(totalWait, n),
     aveTurnaround |-> Div(totalTurnaround, n),
     aveThroughput |-> Div(n, lastCompletion)]

NoSummary == [aveWait |-> <<0, 0>>, aveTurnaround |-> <<0, 0>>, aveThroughput |-> <<0, 0>>]

\* ---- inputs ----
Scenario == <<Process(1, 0, 5, 0), Process(2, 1, 3, 0), Process(3, 2, 2, 0)>>

Fields == [ArrivalTime : 0..MaxArrival, BurstDuration : 1..MaxBurst, Priority : 0..MaxPriority]

WithIds(f, n, asc) ==
    [k \in 1..n |-> Process(IF asc THEN k ELSE n + 1 - k,
                            f[k].ArrivalTime, f[k].BurstDuration, f[k].Priority)]

\* three processes present at time 0, the last two of equal burst and priority
TieScenario == <<Process(3, 0, 2, 1), Process(2, 0, 1, 0), Process(1, 0, 1, 0)>>

\* the loaded list: one of the scenarios, or any list within the bounds
Inputs(ps) ==
    \/ ps = Scenario
    \/ ps = TieScenario
    \/ \E n \in 0..MaxProcs : \E asc \in BOOLEAN : \E f \in [1..n -> Fields] :
           ps = WithIds(f, n, asc)

Init ==
    /\ Inputs(processes)
    /\ alg = "main"
    /\ pc = "ret"
    /\ serviceTime = 0
    /\ totalWait = 0
    /\ totalTurnaround = 0
    /\ lastCompletion = 0
    /\ waitingTime = 0
    /\ schedule = <<>>
    /\ gantt = <<>>
    /\ remainingBurst = << >>
    /\ copyProcesses = <<>>
    /\ i = 0
    /\ summary = NoSummary

\* the var block of a scheduler: zero values, empty schedule and gantt
Locals ==
    /\ serviceTime' = 0
    /\ totalWait' = 0
    /\ totalTurnaround' = 0
    /\ lastCompletion' = 0
    /\ waitingTime' = 0
    /\ schedule' = MakeSchedule(Len(processes))
    /\ gantt' = <<>>
    /\ summary' = NoSummary

\* ---------------------------------------------------------------- FCFS ----
FCFSWait(p, st, w) == IF p.ArrivalTime > 0 THEN st - p.ArrivalTime ELSE w

FCFSStart(p, w) == w + p.ArrivalTime

\* faulty variant: the turnaround without the wait
FCFSTurnaroundNoWait(p, w) == p.BurstDuration

FCFSTurnaround(p, w) == p.BurstDuration + w

\* faulty variant: the completion without the arrival time
FCFSCompletionNoArrival(p, w) == p.BurstDuration + w

FCFSCompletion(p, w) == p.BurstDuration + p.ArrivalTime + w

FCFSEnter ==
    /\ alg = "main" /\ pc = "ret"
    /\ alg' = "FCFS" /\ pc' = "loop"
    /\ Locals
    /\ remainingBurst' = << >>
    /\ copyProcesses' = <<>>
    /\ i' = 1
    /\ UNCHANGED processes

FCFSLoop ==
    /\ alg = "FCFS" /\ pc = "loop"
    /\ i <= Len(processes)
    /\ LET p == processes[i]
           w == FCFSWait(p, serviceTime, waitingTime)
           start == FCFSStart(p, w)
           turnaround == FCFSTurnaround(p, w)
           completion == FCFSCompletion(p, w)
       IN /\ waitingTime' = w
          /\ totalWait' = totalWait + w
          /\ totalTurnaround' = totalTurnaround + turnaround
          /\ lastCompletion' = completion
          /\ schedule' = [schedule EXCEPT ![i] = Row(p, w, turnaround, completion)]
          /\ serviceTime' = serviceTime + p.BurstDuration
          /\ gantt' = Append(gantt, TimeSlice(p.ProcessID, start, serviceTime + p.BurstDuration))
    /\ i' = i + 1
    /\ UNCHANGED <<processes, alg, pc, remainingBurst, copyProcesses, summary>>

FCFSOutput ==
    /\ alg = "FCFS" /\ pc = "loop"
    /\ i > Len(processes)
    /\ summary' = Averages(Len(processes))
    /\ pc' = "ret"
    /\ UNCHANGED <<processes, alg, serviceTime, totalWait, totalTurnaround, lastCompletion,
                   waitingTime, schedule, gantt, remainingBurst, copyProcesses, i>>

\* ----------------------------------------------------------------- SJF ----
\* faulty variant: the scan with <= for <, so that the last of equal bursts wins
RECURSIVE SJFScanLastWins(_, _, _, _, _)
SJFScanLastWins(cp, rb, st, k, best) ==
    IF k > Len(cp) THEN best
    ELSE SJFScanLastWins(cp, rb, st, k + 1,
                         IF /\ cp[k].ArrivalTime <= st
                            /\ MapGet(rb, cp[k].ProcessID) <= MapGet(rb, cp[best].ProcessID)
                         THEN k ELSE best)

\* the scan of lines 152-159: index 1 is the default candidate
RECURSIVE SJFScan(_, _, _, _, _)
SJFScan(cp, rb, st, k, best) ==
    IF k > Len(cp) THEN best
    ELSE SJFScan(cp, rb, st, k + 1,
                 IF /\ cp[k].ArrivalTime <= st
                    /\ MapGet(rb, cp[k].ProcessID) < MapGet(rb, cp[best].ProcessID)
                 THEN k ELSE best)

ShortestJobIndex(cp, rb, st) == SJFScan(cp, rb, st, 1, 1)

SJFWait(p, st, w) == IF p.ArrivalTime > st THEN p.ArrivalTime - st ELSE w

SJFStart(st, w) == st + w

SJFTurnaround(p, w) == w + p.BurstDuration

SJFCompletion(p, st, w) == st + w + p.BurstDuration

SJFStop(start, turnaround) == start + turnaround

SJFEnter ==
    /\ alg = "FCFS" /\ pc = "ret"
    /\ alg' = "SJF" /\ pc' = "loop"
    /\ Locals
    /\ copyProcesses' = processes
    /\ remainingBurst' = InitRemaining(processes, Len(processes))
    /\ i' = 0
    /\ UNCHANGED processes

SJFSelect ==
    /\ alg = "SJF" /\ pc = "loop"
    /\ Len(copyProcesses) > 0
    /\ i' = ShortestJobIndex(copyProcesses, remainingBurst, serviceTime)
    /\ pc' = "body"
    /\ UNCHANGED <<processes, alg, serviceTime, totalWait, totalTurnaround, lastCompletion,
                   waitingTime, schedule, gantt, remainingBurst, copyProcesses, summary>>

SJFRun ==
    /\ alg = "SJF" /\ pc = "body"
    /\ LET shortestJob == copyProcesses[i]
           w == SJFWait(shortestJob, serviceTime, waitingTime)
           start == SJFStart(serviceTime, w)
           turnaround == SJFTurnaround(shortestJob, w)
           completion == SJFCompletion(shortestJob, serviceTime, w)
       IN /\ remainingBurst' = MapDelete(remainingBurst, shortestJob.ProcessID)
          /\ waitingTime' = w
          /\ totalWait' = totalWait + w
          /\ totalTurnaround' = totalTurnaround + turnaround
          /\ lastCompletion' = completion
          /\ schedule' = [schedule EXCEPT ![Len(processes) - Len(copyProcesses) + 1] =
                              Row(shortestJob, w, turnaround, completion)]
          /\ serviceTime' = serviceTime + turnaround
          /\ gantt' = Append(gantt, TimeSlice(shortestJob.ProcessID, start,
                                              SJFStop(start, turnaround)))
    /\ copyProcesses' = RemoveAt(copyProcesses, i)
    /\ processes' = CallerList(processes, copyProcesses, i)
    /\ pc' = "loop"
    /\ UNCHANGED <<alg, i, summary>>

SJFOutput ==
    /\ alg = "SJF" /\ pc = "loop"
    /\ Len(copyProcesses) = 0
    /\ summary' = Averages(Len(processes))
    /\ pc' = "ret"
    /\ UNCHANGED <<processes, alg, serviceTime, totalWait, totalTurnaround, lastCompletion,
                   waitingTime, schedule, gantt, remainingBurst, copyProcesses, i>>

\* ------------------------------------------------------------ priority ----
\* the scan of lines 226-233
RECURSIVE PriorityScan(_, _, _, _)
PriorityScan(cp, st, k, best) ==
    IF k > Len(cp) THEN best
    ELSE PriorityScan(cp, st, k + 1,
                      IF /\ cp[k].ArrivalTime <= st
                         /\ cp[k].Priority < cp[best].Priority
                      THEN k ELSE best)

HighestPriorityIndex(cp, st) == PriorityScan(cp, st, 1, 1)

PriorityWait(p, st, w) == IF p.ArrivalTime > st THEN p.ArrivalTime - st ELSE w

PriorityStart(st, w) == st + w

PriorityTurnaround(p, w) == w + p.BurstDuration

PriorityCompletion(p, st, w) == st + w + p.BurstDuration

PriorityStop(start, turnaround) == start + turnaround

SJFPriorityEnter ==
    /\ alg = "SJF" /\ pc = "ret"
    /\ alg' = "SJFPriority" /\ pc' = "loop"
    /\ Locals
    /\ copyProcesses' = processes
    /\ remainingBurst' = InitRemaining(processes, Len(processes))
    /\ i' = 0
    /\ UNCHANGED processes

SJFPrioritySelect ==
    /\ alg = "SJFPriority" /\ pc = "loop"
    /\ Len(copyProcesses) > 0
    /\ i' = HighestPriorityIndex(copyProcesses, serviceTime)
    /\ pc' = "body"
    /\ UNCHANGED <<processes, alg, serviceTime, totalWait, totalTurnaround, lastCompletion,
                   waitingTime, schedule, gantt, remainingBurst, copyProcesses, summary>>

SJFPriorityRun ==
    /\ alg = "SJFPriority" /\ pc = "body"
    /\ LET highestPriorityJob == copyProcesses[i]
           w == PriorityWait(highestPriorityJob, serviceTime, waitingTime)
           start == PriorityStart(serviceTime, w)
           turnaround == PriorityTurnaround(highestPriorityJob, w)
           completion == PriorityCompletion(highestPriorityJob, serviceTime, w)
       IN /\ remainingBurst' = MapDelete(remainingBurst, highestPriorityJob.ProcessID)
          /\ waitingTime' = w
          /\ totalWait' = totalWait + w
          /\ totalTurnaround' = totalTurnaround + turnaround
          /\ lastCompletion' = completion
          /\ schedule' = [schedule EXCEPT ![Len(processes) - Len(copyProcesses) + 1] =
                              Row(highestPriorityJob, w, turnaround, completion)]
          /\ serviceTime' = serviceTime + turnaround
          /\ gantt' = Append(gantt, TimeSlice(highestPriorityJob.ProcessID, start,
                                              PriorityStop(start, turnaround)))
    /\ copyProcesses' = RemoveAt(copyProcesses, i)
    /\ processes' = CallerList(processes, copyProcesses, i)
    /\ pc' = "loop"
    /\ UNCHANGED <<alg, i, summary>>

SJFPriorityOutput ==
    /\ alg = "SJFPriority" /\ pc = "loop"
    /\ Len(copyProcesses) = 0
    /\ summary' = Averages(Len(processes))
    /\ pc' = "ret"
    /\ UNCHANGED <<processes, alg, serviceTime, totalWait, totalTurnaround, lastCompletion,
                   waitingTime, schedule, gantt, remainingBurst, copyProcesses, i>>

\* --------------------------------------------------------- round-robin ----
\* faulty variant: the larger of the two
minLarger(a, b) == IF a < b THEN b ELSE a

min(a, b) == IF a < b THEN a ELSE b

MapSet(m, k, v) == [x \in (DOMAIN m) \cup {k} |-> IF x = k THEN v ELSE m[x]]

RRWait(p, st, remaining, burstTime) ==
    IF remaining = 0 THEN st + 1 - p.ArrivalTime - burstTime
    ELSE st - p.ArrivalTime

RRStart(st, w) == st + w

RRTurnaround(w, burstTime) == w + burstTime

\* faulty variant: the slice takes no time
RRCompletionSameTime(st) == st

RRCompletion(st) == st + 1

RRStop(start, turnaround) == start + turnaround

RREnter ==
    /\ alg = "SJFPriority" /\ pc = "ret"
    /\ alg' = "RR" /\ pc' = "loop"
    /\ Locals
    /\ copyProcesses' = processes
    /\ remainingBurst' = InitRemaining(processes, Len(processes))
    /\ i' = 1
    /\ UNCHANGED processes

\* one iteration of the inner loop on a process that has arrived (lines 301-341)
RRSlice ==
    /\ alg = "RR" /\ pc = "loop"
    /\ i <= Len(copyProcesses)
    /\ copyProcesses[i].ArrivalTime <= serviceTime
    /\ LET p == copyProcesses[i]
           burstTime == min(MapGet(remainingBurst, p.ProcessID), 1)
           remaining == MapGet(remainingBurst, p.ProcessID) - burstTime
           w == RRWait(p, serviceTime, remaining, burstTime)
           start == RRStart(serviceTime, w)
           turnaround == RRTurnaround(w, burstTime)
           completion == RRCompletion(serviceTime)
       IN /\ remainingBurst' = MapSet(remainingBurst, p.ProcessID, remaining)
          /\ waitingTime' = w
          /\ totalWait' = totalWait + w
          /\ totalTurnaround' = totalTurnaround + turnaround
          /\ lastCompletion' = completion
          /\ schedule' = [schedule EXCEPT ![Len(processes) - Len(copyProcesses) + 1] =
                              Row(p, w, turnaround, completion)]
          /\ serviceTime' = completion
          /\ gantt' = Append(gantt, TimeSlice(p.ProcessID, start, RRStop(start, turnaround)))
          /\ IF remaining = 0
             THEN /\ copyProcesses' = RemoveAt(copyProcesses, i)
                  /\ processes' = CallerList(processes, copyProcesses, i)
                  /\ i' = 1
             ELSE /\ copyProcesses' = copyProcesses
                  /\ processes' = processes
                  /\ i' = i + 1
    /\ UNCHANGED <<alg, pc, summary>>

\* one iteration of the inner loop on a process that has not arrived (line 301)
RRSkip ==
    /\ alg = "RR" /\ pc = "loop"
    /\ i <= Len(copyProcesses)
    /\ copyProcesses[i].ArrivalTime > serviceTime
    /\ i' = i + 1
    /\ UNCHANGED <<processes, alg, pc, serviceTime, totalWait, totalTurnaround, lastCompletion,
                   waitingTime, schedule, gantt, remainingBurst, copyProcesses, summary>>

\* the inner loop ran off the end of the list: the outer loop starts a new scan
RRWrap ==
    /\ alg = "RR" /\ pc = "loop"
    /\ Len(copyProcesses) > 0
    /\ i > Len(copyProcesses)
    /\ i' = 1
    /\ UNCHANGED <<processes, alg, pc, serviceTime, totalWait, totalTurnaround, lastCompletion,
                   waitingTime, schedule, gantt, remainingBurst, copyProcesses, summary>>

RROutput ==
    /\ alg = "RR" /\ pc = "loop"
    /\ Len(copyProcesses) = 0
    /\ summary' = Averages(Len(processes))
    /\ pc' = "ret"
    /\ UNCHANGED <<processes, alg, serviceTime, totalWait, totalTurnaround, lastCompletion,
                   waitingTime, schedule, gantt, remainingBurst, copyProcesses, i>>

Next ==
    \/ FCFSEnter \/ FCFSLoop \/ FCFSOutput
    \/ SJFEnter \/ SJFSelect \/ SJFRun \/ SJFOutput
    \/ SJFPriorityEnter \/ SJFPrioritySelect \/ SJFPriorityRun \/ SJFPriorityOutput
    \/ RREnter \/ RRSlice \/ RRSkip \/ RRWrap \/ RROutput

Spec == Init /\ [][Next]_vars

\* the Go runtime keeps running a goroutine that can take a step
FairSpec == Spec /\ WF_vars(Next)

\* ======================================================= properties ======
Max(a, b) == IF a > b THEN a ELSE b

DigitVal(c) == CHOOSE d \in 0..9 : DigitChar[d + 1] = c

RECURSIVE AtoiDigits(_)
AtoiDigits(s) == IF Len(s) = 0 THEN 0
                 ELSE AtoiDigits(SubSeq(s, 1, Len(s) - 1)) * 10 + DigitVal(s[Len(s)])

\* the integer a table cell shows
Atoi(s) == IF s[1] = "-" THEN 0 - AtoiDigits(Tail(s)) ELSE AtoiDigits(s)

RowID(r) == Atoi(r[1])
RowBurst(r) == Atoi(r[3])
RowArrival(r) == Atoi(r[4])
RowWait(r) == Atoi(r[5])
RowTurnaround(r) == Atoi(r[6])
RowCompletion(r) == Atoi(r[7])

RECURSIVE SumBurst(_, _)
SumBurst(ps, n) == IF n = 0 THEN 0 ELSE SumBurst(ps, n - 1) + ps[n].BurstDuration

RECURSIVE SumWidth(_, _)
SumWidth(g, n) == IF n = 0 THEN 0 ELSE SumWidth(g, n - 1) + (g[n].Stop - g[n].Start)

Schedulers == {"FCFS", "SJF", "SJFPriority", "RR"}

Finished(a) == alg = a /\ pc = "ret"

Arrived(p) == p.ArrivalTime <= serviceTime

\* the rows written so far by the running scheduler
RowsWritten == {k \in DOMAIN schedule : schedule[k] # <<>>}

\* C1: when a scheduler has finished on a non-empty list, the widths of its
\* timeline entries add up to the sum of the bursts of the input.
C1_CpuTimeConserved ==
    (alg \in Schedulers /\ pc = "ret" /\ Len(processes) > 0)
        => SumWidth(gantt, Len(gantt)) = SumBurst(processes, Len(processes))

\* C2: RRSchedule terminates: whenever it runs, its pending list eventually
\* becomes empty.
C2_RRTerminates ==
    [](alg = "RR" => <>(alg = "RR" /\ Len(copyProcesses) = 0))

\* C3: on the scenario [(1,5,0),(2,3,1),(3,2,2)] FCFS reports completions
\* 5, 8, 10 for processes 1, 2, 3 in row order, and SJF runs and completes the
\* processes in the order 1, 3, 2.
C3_Scenario ==
    processes = Scenario =>
        /\ Finished("FCFS") =>
              /\ [k \in 1..3 |-> RowID(schedule[k])] = <<1, 2, 3>>
              /\ [k \in 1..3 |-> RowCompletion(schedule[k])] = <<5, 8, 10>>
        /\ Finished("SJF") =>
              /\ [k \in 1..3 |-> gantt[k].PID] = <<1, 3, 2>>
              /\ [k \in 1..3 |-> RowID(schedule[k])] = <<1, 3, 2>>

C3_Witness ==
    /\ processes = Scenario
    /\ Finished("SJF")
    /\ [k \in 1..3 |-> RowID(schedule[k])] = <<1, 3, 2>>

\* C4: every row FCFS has written reports the wait max(0, serviceTimeSoFar - arrival),
\* serviceTimeSoFar being the sum of the bursts of the processes before it.
C4_FCFSWait ==
    alg = "FCFS" =>
        \A k \in RowsWritten :
            RowWait(schedule[k]) =
                Max(0, SumBurst(processes, k - 1) - processes[k].ArrivalTime)

\* C5: at a selection of SJF (priority) with an arrived pending process, the
\* selected process has arrived and its burst (priority) is the minimum over
\* the arrived pending processes.
SelectionKey(p) == IF alg = "SJF" THEN p.BurstDuration ELSE p.Priority

C5_SelectsArrivedMinimum ==
    (/\ alg \in {"SJF", "SJFPriority"} /\ pc = "body"
     /\ \E j \in DOMAIN copyProcesses : Arrived(copyProcesses[j]))
        => /\ Arrived(copyProcesses[i])
           /\ \A j \in DOMAIN copyProcesses :
                  Arrived(copyProcesses[j])
                      => SelectionKey(copyProcesses[i]) <= SelectionKey(copyProcesses[j])

\* C6: when the process selected by SJF (priority) has arrived, every arrived
\* pending process before it in the list has a strictly larger burst (priority):
\* among equals the first in list order is taken.
C6_TieBreakByPosition ==
    (/\ alg \in {"SJF", "SJFPriority"} /\ pc = "body"
     /\ Arrived(copyProcesses[i]))
        => \A j \in 1..(i - 1) :
               Arrived(copyProcesses[j])
                   => SelectionKey(copyProcesses[j]) > SelectionKey(copyProcesses[i])

\* a selection passed over an earlier arrived process, and took the first of two
\* equals although the second has the smaller id
C6_Witness ==
    /\ alg \in {"SJF", "SJFPriority"} /\ pc = "body"
    /\ i > 1
    /\ Arrived(copyProcesses[i])
    /\ \E j \in 1..(i - 1) : Arrived(copyProcesses[j])
    /\ \E j \in (i + 1)..Len(copyProcesses) :
           /\ Arrived(copyProcesses[j])
           /\ SelectionKey(copyProcesses[j]) = SelectionKey(copyProcesses[i])
           /\ copyProcesses[j].ProcessID < copyProcesses[i].ProcessID

\* C7: the wait SJF (priority) reports for the selected process is
\* max(0, arrival - currentTime) at its selection.
C7_WaitAtSelection ==
    [][(SJFRun \/ SJFPriorityRun)
          => waitingTime' = Max(0, copyProcesses[i].ArrivalTime - serviceTime)]_vars

\* C8: every row of FCFS has turnaround = wait + burst and
\* completion = arrival + wait + burst.
C8_FCFSRowIdentities ==
    alg = "FCFS" =>
        \A k \in RowsWritten :
            LET r == schedule[k]
            IN /\ RowBurst(r) = processes[k].BurstDuration
               /\ RowArrival(r) = processes[k].ArrivalTime
               /\ RowTurnaround(r) = RowWait(r) + RowBurst(r)
               /\ RowCompletion(r) = RowArrival(r) + RowWait(r) + RowBurst(r)

C8_Witness ==
    /\ Finished("FCFS")
    /\ Len(processes) >= 2
    /\ RowsWritten = DOMAIN schedule
    /\ \E k \in RowsWritten : RowWait(schedule[k]) > 0
    /\ \E k \in RowsWritten : RowArrival(schedule[k]) > 0

\* C9: every row of SJF and of priority scheduling has turnaround = wait + burst
\* and completion = arrival + wait + burst.
C9_SJFRowIdentities ==
    alg \in {"SJF", "SJFPriority"} =>
        \A k \in RowsWritten :
            LET r == schedule[k]
            IN /\ RowTurnaround(r) = RowWait(r) + RowBurst(r)
               /\ RowCompletion(r) = RowArrival(r) + RowWait(r) + RowBurst(r)

\* C10: when RR has finished, the completion of each row is the largest Stop
\* among the timeline entries of the row's process.
C10_RRCompletionIsLastStop ==
    Finished("RR") =>
        \A k \in RowsWritten :
            LET stops == {gantt[n].Stop : n \in {m \in DOMAIN gantt :
                                                    gantt[m].PID = RowID(schedule[k])}}
            IN /\ RowCompletion(schedule[k]) \in stops
               /\ \A t \in stops : t <= RowCompletion(schedule[k])

\* the timeline entries of process id, in the order they were appended
EntriesOf(id) == {n \in DOMAIN gantt : gantt[n].PID = id}

\* C11: RR on a single process of burst b and arrival 0 emits b entries, each of
\* width 1, and its row reports wait 0 and completion b.
C11_RRSingleProcess ==
    (Finished("RR") /\ Len(processes) = 1 /\ processes[1].ArrivalTime = 0)
        => /\ Len(gantt) = processes[1].BurstDuration
           /\ \A n \in DOMAIN gantt : gantt[n].Stop - gantt[n].Start = 1
           /\ RowWait(schedule[1]) = 0
           /\ RowCompletion(schedule[1]) = processes[1].BurstDuration

\* C12: when a scheduler has finished on a non-empty list, the accumulated wait,
\* the numerator of the average wait, is not negative.
C12_TotalWaitNonNegative ==
    (alg \in Schedulers /\ pc = "ret" /\ Len(processes) > 0)
        => /\ totalWait >= 0
           /\ summary.aveWait[1] >= 0

\* C13: within a scheduler the timeline only grows at its end, every entry has
\* Stop >= Start, and the Start values are nondecreasing in append order.
IsPrefix(s, t) == Len(s) <= Len(t) /\ \A n \in DOMAIN s : s[n] = t[n]

C13_TimelineOrdered ==
    [][/\ alg' = alg => IsPrefix(gantt, gantt')
       /\ \A n \in DOMAIN gantt' : gantt'[n].Stop >= gantt'[n].Start
       /\ \A n \in 1..(Len(gantt') - 1) : gantt'[n].Start <= gantt'[n + 1].Start]_vars

\* C14: when a scheduler has finished, lastCompletion, the denominator of the
\* throughput, is the largest completion among the rows.
C14_LastCompletionIsMax ==
    (alg \in Schedulers /\ pc = "ret" /\ Len(processes) > 0)
        => /\ summary.aveThroughput[2] = lastCompletion
           /\ \E k \in DOMAIN schedule : RowCompletion(schedule[k]) = lastCompletion
           /\ \A k \in DOMAIN schedule : RowCompletion(schedule[k]) <= lastCompletion

\* the position in the timeline of the last entry of process id
LastEntry(id) == CHOOSE n \in EntriesOf(id) : \A m \in EntriesOf(id) : m <= n

InputIDs == {processes[k].ProcessID : k \in DOMAIN processes}

\* C15: when a scheduler has finished there is exactly one row per input process;
\* FCFS keeps the input order, and in SJF, priority and RR the rows follow the
\* order in which the processes completed, with nondecreasing completion times.
C15_OneRowPerProcess ==
    (alg \in Schedulers /\ pc = "ret") =>
        /\ Len(schedule) = Len(processes)
        /\ RowsWritten = DOMAIN schedule
        /\ {RowID(schedule[k]) : k \in DOMAIN schedule} = InputIDs
        /\ \A k, l \in DOMAIN schedule : k # l => RowID(schedule[k]) # RowID(schedule[l])
        /\ alg = "FCFS" =>
               \A k \in DOMAIN schedule : RowID(schedule[k]) = processes[k].ProcessID
        /\ alg # "FCFS" =>
               \A k, l \in DOMAIN schedule : k < l =>
                   /\ LastEntry(RowID(schedule[k])) < LastEntry(RowID(schedule[l]))
                   /\ RowCompletion(schedule[k]) <= RowCompletion(schedule[l])
        /\ alg = "RR" =>
               \A k \in DOMAIN schedule :
                   RowCompletion(schedule[k]) = gantt[LastEntry(RowID(schedule[k]))].Start
                                                    - RowWait(schedule[k]) + 1

\* RR finished after slices that did not complete their process, with the rows
\* in another order than the input
C15_Witness ==
    /\ Finished("RR")
    /\ Len(gantt) > Len(processes)
    /\ Len(processes) >= 2
    /\ RowID(schedule[1]) # processes[1].ProcessID
    /\ RowsWritten = DOMAIN schedule

\* C16: no step of any scheduler changes the caller's list, and a scheduler
\* starts from nothing but that list: zeroed locals, an empty timeline, empty
\* rows and its own copy, so that a second run repeats the first.
C16_CallerListUntouched ==
    [][/\ processes' = processes
       /\ alg' # alg =>
              /\ serviceTime' = 0 /\ totalWait' = 0 /\ totalTurnaround' = 0
              /\ lastCompletion' = 0 /\ waitingTime' = 0
              /\ gantt' = <<>>
              /\ schedule' = [k \in DOMAIN processes |-> <<>>]
              /\ alg' # "FCFS" =>
                     /\ copyProcesses' = processes
                     /\ DOMAIN remainingBurst' = InputIDs
                     /\ \A k \in DOMAIN processes :
                            remainingBurst'[processes[k].ProcessID] = processes[k].BurstDuration]_vars

\* all four schedulers have run on the scenario, SJF having removed the first,
\* the second and then the last element of its copy
C16_Witness ==
    /\ Finished("RR")
    /\ processes = Scenario
    /\ Len(copyProcesses) = 0
    /\ Len(gantt) = 10

\* the number of timeline entries of process id
EntryCount(id) == Cardinality(EntriesOf(id))

PendingIDs == {copyProcesses[k].ProcessID : k \in DOMAIN copyProcesses}

\* C17: in every state of RR, each process has a remaining burst >= 0 that,
\* added to the number of its timeline entries, gives its burst, and it is
\* pending exactly while its remaining burst is positive; once RR has finished
\* each process has as many entries as its burst.
C17_RRRemainingBurst ==
    alg = "RR" =>
        \A k \in DOMAIN processes :
            LET p == processes[k]
                remaining == MapGet(remainingBurst, p.ProcessID)
            IN /\ p.ProcessID \in DOMAIN remainingBurst
               /\ remaining >= 0
               /\ EntryCount(p.ProcessID) + remaining = p.BurstDuration
               /\ (p.ProcessID \in PendingIDs) <=> (remaining > 0)
               /\ pc = "ret" => EntryCount(p.ProcessID) = p.BurstDuration

\* RR is half-way: one process has completed and left the list, another has
\* run a slice and still has a remaining burst
C17_Witness ==
    /\ alg = "RR" /\ pc = "loop"
    /\ \E k \in DOMAIN processes :
           /\ processes[k].ProcessID \notin PendingIDs
           /\ EntryCount(processes[k].ProcessID) = processes[k].BurstDuration
    /\ \E k \in DOMAIN copyProcesses :
           /\ EntryCount(copyProcesses[k].ProcessID) > 0
           /\ MapGet(remainingBurst, copyProcesses[k].ProcessID) > 0

\* the remaining burst, after the step, of the process at the scan index
RemainingAfter == MapGet(remainingBurst', copyProcesses[i].ProcessID)

\* C18 as stated: a slice that leaves its process unfinished does not change
\* currentTime and moves the scan on; currentTime changes only in a slice that
\* completes its process, which is then removed, the scan restarting at the head.
C18_TimeOnlyOnCompletion ==
    [][RRSlice =>
          /\ RemainingAfter > 0 =>
                 /\ serviceTime' = serviceTime
                 /\ copyProcesses' = copyProcesses
                 /\ i' = i + 1
          /\ serviceTime' # serviceTime =>
                 /\ RemainingAfter = 0
                 /\ copyProcesses' = RemoveAt(copyProcesses, i)
                 /\ i' = 1]_vars

\* C18 amended: every slice advances currentTime by 1, whether or not it
\* completes its process, and no other step of RR changes currentTime; after a
\* slice that leaves its process unfinished the scan moves to the next pending
\* process, after one that completes it the process is removed and the scan
\* restarts at the head.
C18_TimeOnEverySlice ==
    [][/\ RRSlice =>
              /\ serviceTime' = serviceTime + 1
              /\ RemainingAfter > 0 =>
                     copyProcesses' = copyProcesses /\ i' = i + 1
              /\ RemainingAfter = 0 =>
                     copyProcesses' = RemoveAt(copyProcesses, i) /\ i' = 1
       /\ (alg = "RR" /\ alg' = "RR" /\ ~RRSlice) => serviceTime' = serviceTime]_vars

\* a slice has just left its process unfinished: the scan stands at the next
\* pending process and currentTime has moved
C18_Witness ==
    /\ alg = "RR" /\ pc = "loop"
    /\ Len(gantt) > 0
    /\ i >= 2 /\ i <= Len(copyProcesses)
    /\ copyProcesses[i - 1].ProcessID = gantt[Len(gantt)].PID
    /\ MapGet(remainingBurst, gantt[Len(gantt)].PID) > 0
    /\ serviceTime = Len(gantt)

\* C19: within a timeline no entry starts before the entry appended before it
\* has stopped.
C19_NoOverlap ==
    alg \in Schedulers =>
        \A n \in 1..(Len(gantt) - 1) : gantt[n + 1].Start >= gantt[n].Stop

\* the input process an entry names
ProcessOf(id) == CHOOSE p \in {processes[k] : k \in DOMAIN processes} : p.ProcessID = id

\* C20: no timeline entry starts before the arrival of its process.
C20_StartAfterArrival ==
    alg \in Schedulers =>
        \A n \in DOMAIN gantt : gantt[n].Start >= ProcessOf(gantt[n].PID).ArrivalTime
====
